---- MODULE Spec2Model ----
(***************************************************************************)
(* MatchLife backend (src/main.py, src/schemas.py): the request handlers   *)
(* over the "user" and "message" collections of the document store.        *)
(*                                                                         *)
(* One request at a time, every handler run to completion:                 *)
(*   Spec        profile submissions, likes and admin rejects              *)
(*   FailSpec    Spec, and likes whose store write raises                  *)
(*   MsgSpec     profile submissions, likes, rejects and messages          *)
(*   ModSpec     payloads with moderation flags, and every admin action    *)
(*   SearchSpec  profiles with birth dates, and search_profiles by age     *)
(* Requests on two workers, one store call per step, interleaved:          *)
(*   ConcSpec    create_or_update_profile and like_user                    *)
(***************************************************************************)
EXTENDS Integers, FiniteSets, Sequences, TLC

VARIABLES users, nextId, messages, last, workers

vars == <<users, nextId, messages, last, workers>>

(***************************************************************************)
(* Bounds of the model                                                     *)
(***************************************************************************)
\* ObjectIds the store hands out before inserts are cut off
MaxProfiles == 2
\* messages kept in the log before sends are cut off
MaxMsgs == 1
\* largest age a search asks for
MaxAge == 4

(***************************************************************************)
(* Identifiers.  An ObjectId is a number; an identifier string as a client *)
(* sends it is the ObjectId's 24 hex digits in lower or in upper case.     *)
(***************************************************************************)
Ids == 1..MaxProfiles

\* the ObjectIds whose upper-case spelling clients send as well
UpperIds == {1}

Lower(i) == <<i, "lower">>

Upper(i) == <<i, "upper">>

IdStr == {Lower(i) : i \in Ids} \cup {Upper(i) : i \in UpperIds}

\* a string that is no 24-digit hex string
BadId == <<0, "bad">>

ReqIds == IdStr \cup {BadId}

\* ObjectId(id_str) parses hex digits of either case; anything else raises
oidOk(id_str) == id_str \in IdStr

oid(id_str) == id_str[1]

\* str(doc["_id"]): lower-case hex
user_to_public(id) == Lower(id)

\* Python's order on the identifier strings (upper-case letters sort first)
StrRank(s) == 2 * s[1] + (IF s[2] = "upper" THEN 0 ELSE 1)

\* "-".join(sorted([a, b]))
match_id(a, b) == IF StrRank(a) <= StrRank(b) THEN <<a, b>> ELSE <<b, a>>

(***************************************************************************)
(* Dates: <<year, month, day>>                                             *)
(***************************************************************************)
IsLeap(y) == (y % 4 = 0) /\ ((y % 100 # 0) \/ (y % 400 = 0))

DaysIn(y, m) ==
    IF m = 2 THEN (IF IsLeap(y) THEN 29 ELSE 28)
    ELSE IF m \in {4, 6, 9, 11} THEN 30 ELSE 31

\* date(y, m, d) raises ValueError unless this holds
DateOk(y, m, d) == y >= 1 /\ m \in 1..12 /\ d >= 1 /\ d <= DaysIn(y, m)

\* the order of isoformat() strings "YYYY-MM-DD"
DateLE(a, b) ==
    \/ a[1] < b[1]
    \/ a[1] = b[1] /\ a[2] < b[2]
    \/ a[1] = b[1] /\ a[2] = b[2] /\ a[3] <= b[3]

(***************************************************************************)
(* Arrays of identifier strings, kept up to order: string -> occurrences   *)
(***************************************************************************)
EmptyArr == [s \in IdStr |-> 0]

One(s) == [EmptyArr EXCEPT ![s] = 1]

In(s, arr) == s \in IdStr /\ arr[s] > 0

Elems(arr) == {s \in IdStr : arr[s] > 0}

\* $push: appends whether or not the value is there
Push(arr, s) == [arr EXCEPT ![s] = @ + 1]

\* $addToSet
AddToSet(arr, s) == IF arr[s] > 0 THEN arr ELSE [arr EXCEPT ![s] = 1]

(***************************************************************************)
(* The store                                                               *)
(***************************************************************************)
\* an absent value (Python's None), and a present one
None == <<>>

Some(v) == <<v>>

Emails == {"e1", "e2"}

Birth0 == <<2000, 1, 1>>

\* users: ObjectId -> document, for the documents in db["user"]
Exists(db, id) == id \in DOMAIN db

\* db["user"].find_one({"_id": id})
find_by_id(db, id) == IF Exists(db, id) THEN Some(db[id]) ELSE None

\* db["user"].find_one({"email": email}): the first such document's id, or 0
find_by_email(db, email) ==
    LET hits == {i \in DOMAIN db : db[i].email = email}
    IN  IF hits = {} THEN 0 ELSE CHOOSE i \in hits : \A j \in hits : i <= j

\* update_one({"_id": id}, {"$set": data}); no document matched: no effect
update_set(db, id, data) ==
    IF Exists(db, id) THEN [db EXCEPT ![id] = data] ELSE db

\* update_one({"_id": id}, {"$addToSet": {field: s}})
update_add_to_set(db, id, field, s) ==
    IF Exists(db, id)
    THEN [db EXCEPT ![id] = [@ EXCEPT ![field] = AddToSet(@, s)]]
    ELSE db

\* update_one({"_id": id}, {"$set": {field: v}})
update_field(db, id, field, v) ==
    IF Exists(db, id) THEN [db EXCEPT ![id] = [@ EXCEPT ![field] = v]] ELSE db

\* delete_one({"_id": id})
delete_one(db, id) == [i \in DOMAIN db \ {id} |-> db[i]]

\* create_document("user", data): insert under a fresh ObjectId
create_document(db, nid, data) ==
    [i \in DOMAIN db \cup {nid} |-> IF i = nid THEN data ELSE db[i]]

(***************************************************************************)
(* Responses.  last is the response to the latest finished request.        *)
(***************************************************************************)
Resp(op, status, body) == [op |-> op, status |-> status, body |-> body]

NoResp == Resp("none", 0, None)

Idle == [pc |-> "idle", payload |-> None, u_from |-> None, u_to |-> None,
         existing |-> 0]

Workers == {1, 2}

AllIdle == \A w \in Workers : workers[w] = Idle

(***************************************************************************)
(* POST /api/profile                                                       *)
(***************************************************************************)
\* lines 88-93: update the found document, or insert a new one
profile_write(db, nid, existing, data) ==
    IF existing # 0 THEN update_set(db, existing, data)
    ELSE create_document(db, nid, data)

profile_next_id(nid, existing) == IF existing # 0 THEN nid ELSE nid + 1

\* lines 90-91, 94-95: the id of the document sent back
profile_doc_id(nid, existing) == IF existing # 0 THEN existing ELSE nid

create_or_update_profile(user) ==
    LET existing == find_by_email(users, user.email)
    IN  /\ AllIdle
        /\ existing = 0 => nextId <= MaxProfiles
        /\ users' = profile_write(users, nextId, existing, user)
        /\ nextId' = profile_next_id(nextId, existing)
        /\ last' = Resp("profile", 200,
                        user_to_public(profile_doc_id(nextId, existing)))
        /\ UNCHANGED <<messages, workers>>

(***************************************************************************)
(* POST /api/like                                                          *)
(***************************************************************************)
\* line 154
like_add(db, payload) ==
    update_add_to_set(db, oid(payload.from_user_id), "liked_user_ids",
                      payload.to_user_id)

\* a check that passes over a receiver who already lists the sender as a match
is_mutual_unmatched(payload, u_to) ==
    /\ In(payload.from_user_id, u_to[1].liked_user_ids)
    /\ ~In(payload.from_user_id, u_to[1].matches)

\* line 156, on the document read at line 150
is_mutual(payload, u_to) == In(payload.from_user_id, u_to[1].liked_user_ids)

\* line 159
match_from(db, payload) ==
    update_add_to_set(db, oid(payload.from_user_id), "matches",
                      payload.to_user_id)

\* the second match write addressed to the sender's document again
match_to_sender(db, payload) ==
    update_add_to_set(db, oid(payload.from_user_id), "matches",
                      payload.from_user_id)

\* line 160
match_to(db, payload) ==
    update_add_to_set(db, oid(payload.to_user_id), "matches",
                      payload.from_user_id)

\* The handler's result on store db: the store after it and the response.
\* fail = 0: every store write succeeds.  fail = 1, 2, 3: the write at line
\* 154, 159, 160 raises when the handler reaches it, and the request ends with
\* status 500 after the writes made before it.
like_result(db, payload, fail) ==
    IF payload.from_user_id = payload.to_user_id
    THEN [db |-> db, resp |-> Resp("like", 400, "Cannot like yourself")]
    ELSE IF ~oidOk(payload.from_user_id) \/ ~oidOk(payload.to_user_id)
    THEN [db |-> db, resp |-> Resp("like", 400, "Invalid ID")]
    ELSE LET u_from == find_by_id(db, oid(payload.from_user_id))
             u_to   == find_by_id(db, oid(payload.to_user_id))
             db1    == like_add(db, payload)
             db2    == match_from(db1, payload)
             db3    == match_to(db2, payload)
         IN  IF u_from = None \/ u_to = None
             THEN [db |-> db, resp |-> Resp("like", 404, "User not found")]
             ELSE IF fail = 1
             THEN [db |-> db, resp |-> Resp("like", 500, 154)]
             ELSE IF ~is_mutual(payload, u_to)
             THEN [db |-> db1, resp |-> Resp("like", 200, FALSE)]
             ELSE IF fail = 2
             THEN [db |-> db1, resp |-> Resp("like", 500, 159)]
             ELSE IF fail = 3
             THEN [db |-> db2, resp |-> Resp("like", 500, 160)]
             ELSE [db |-> db3, resp |-> Resp("like", 200, TRUE)]

like_user(payload, fail) ==
    /\ AllIdle
    /\ users' = like_result(users, payload, fail).db
    /\ last' = like_result(users, payload, fail).resp
    /\ UNCHANGED <<nextId, messages, workers>>

(***************************************************************************)
(* POST /api/chat/send                                                     *)
(***************************************************************************)
\* lines 198-204
Message(payload) ==
    [match_id |-> match_id(payload.from_user_id, payload.to_user_id),
     sender_id |-> payload.from_user_id, text |-> payload.text]

\* no match check at all
not_matched_never(payload, u_from) == FALSE

\* line 196
not_matched(payload, u_from) == ~In(payload.to_user_id, u_from[1].matches)

\* The handler's result: the message log after it and the response.
send_result(db, log, payload) ==
    IF ~oidOk(payload.from_user_id)
    THEN [log |-> log, resp |-> Resp("send", 400, "Invalid ID")]
    ELSE LET u_from == find_by_id(db, oid(payload.from_user_id))
         IN  IF u_from = None
             THEN [log |-> log, resp |-> Resp("send", 404, "Sender not found")]
             ELSE IF not_matched(payload, u_from)
             THEN [log |-> log,
                   resp |-> Resp("send", 403, "You can only message matched users")]
             ELSE [log |-> Append(log, Message(payload)),
                   resp |-> Resp("send", 200, TRUE)]

send_message(payload) ==
    /\ AllIdle
    /\ Len(send_result(users, messages, payload).log) <= MaxMsgs
    /\ messages' = send_result(users, messages, payload).log
    /\ last' = send_result(users, messages, payload).resp
    /\ UNCHANGED <<users, nextId, workers>>

(***************************************************************************)
(* POST /api/admin/action                                                  *)
(***************************************************************************)
\* lines 221-230, for the four actions AdminAction admits
admin_apply(db, id, action) ==
    IF action = "approve" THEN update_field(db, id, "approved", TRUE)
    ELSE IF action = "reject" THEN delete_one(db, id)
    ELSE IF action = "verify" THEN update_field(db, id, "verified", TRUE)
    ELSE update_field(db, id, "verified", FALSE)

admin_action(action) ==
    /\ AllIdle
    /\ UNCHANGED <<nextId, messages, workers>>
    /\ IF ~oidOk(action.user_id)
       THEN /\ last' = Resp("admin", 400, "Invalid ID")
            /\ UNCHANGED users
       ELSE IF find_by_id(users, oid(action.user_id)) = None
       THEN /\ last' = Resp("admin", 404, "User not found")
            /\ UNCHANGED users
       ELSE /\ users' = admin_apply(users, oid(action.user_id), action.action)
            /\ last' = Resp("admin", 200, TRUE)

(***************************************************************************)
(* POST /api/search, for a query with the age bounds alone                 *)
(***************************************************************************)
\* line 116: date(today.year - usia_min, today.month, today.day)
max_birth(q, today) == <<today[1] - q.usia_min[1], today[2], today[3]>>

\* line 119: date(today.year - usia_max - 1, today.month, today.day)
min_birth(q, today) == <<today[1] - q.usia_max[1] - 1, today[2], today[3]>>

\* lines 111-120: a date() call raises ValueError
search_raises(q, today) ==
    \/ /\ q.usia_min # None
       /\ ~DateOk(max_birth(q, today)[1], max_birth(q, today)[2],
                  max_birth(q, today)[3])
    \/ /\ q.usia_max # None
       /\ ~DateOk(min_birth(q, today)[1], min_birth(q, today)[2],
                  min_birth(q, today)[3])

\* lines 109-121: the filter on one document
search_filter(doc, q, today) ==
    /\ doc.approved
    /\ q.usia_min # None => DateLE(doc.tanggal_lahir, max_birth(q, today))
    /\ q.usia_max # None => DateLE(min_birth(q, today), doc.tanggal_lahir)

\* get_documents("user", filters)
get_documents(db, q, today) ==
    {i \in DOMAIN db : search_filter(db[i], q, today)}

search_result(db, q, today) ==
    IF search_raises(q, today)
    THEN Resp("search", 500, "ValueError")
    ELSE Resp("search", 200,
              {user_to_public(i) : i \in get_documents(db, q, today)})

search_profiles(q, today) ==
    /\ AllIdle
    /\ last' = search_result(users, q, today)
    /\ UNCHANGED <<users, nextId, messages, workers>>

(***************************************************************************)
(* Spec: one request at a time, every store call succeeding.  Clients send *)
(* identifiers in either spelling and may fill the arrays of a User        *)
(* payload with identifiers the store has handed out; the moderation flags *)
(* of a payload keep their defaults and the admin rejects.                 *)
(* MsgSpec: the same with messages; payloads fill matches alone and likes  *)
(* spell identifiers in lower case.                                        *)
(***************************************************************************)
\* arrays a client puts in the liked_user_ids and matches of a User payload
ArrPayloads == {EmptyArr, One(user_to_public(1))}

Known(arr) == \A s \in Elems(arr) : oid(s) < nextId

UserPayloads ==
    {u \in [email : Emails, tanggal_lahir : {Birth0}, verified : {FALSE},
            approved : {FALSE}, liked_user_ids : ArrPayloads,
            matches : ArrPayloads] :
        Known(u.liked_user_ids) /\ Known(u.matches)}

Like(a, b) == [from_user_id |-> a, to_user_id |-> b]

LikePayloads == [from_user_id : ReqIds, to_user_id : ReqIds]

SendPayloads == [from_user_id : ReqIds, to_user_id : ReqIds, text : {"hi"}]

AdminRejects == [user_id : ReqIds, action : {"reject"}]

Init ==
    /\ users = [i \in {} |-> None]
    /\ nextId = 1
    /\ messages = <<>>
    /\ last = NoResp
    /\ workers = [w \in Workers |-> Idle]

Profile == \E user \in UserPayloads : create_or_update_profile(user)

LikeOk == \E payload \in LikePayloads : like_user(payload, 0)

Send == \E payload \in SendPayloads : send_message(payload)

Reject == \E action \in AdminRejects : admin_action(action)

Next == Profile \/ LikeOk \/ Reject

Spec == Init /\ [][Next]_vars

LowerIds == {Lower(i) : i \in Ids}

MsgUserPayloads ==
    {u \in [email : Emails, tanggal_lahir : {Birth0}, verified : {FALSE},
            approved : {FALSE}, liked_user_ids : {EmptyArr},
            matches : ArrPayloads] :
        Known(u.matches)}

LowerLikePayloads == [from_user_id : LowerIds, to_user_id : LowerIds]

MsgProfile == \E user \in MsgUserPayloads : create_or_update_profile(user)

LowerLike == \E payload \in LowerLikePayloads : like_user(payload, 0)

MsgNext == MsgProfile \/ LowerLike \/ Send \/ Reject

MsgSpec == Init /\ [][MsgNext]_vars

(***************************************************************************)
(* FailSpec: Spec, and a like whose store write raises                     *)
(***************************************************************************)
\* the payloads that reach the store writes
ValidLikes ==
    {p \in LikePayloads :
        /\ oidOk(p.from_user_id) /\ oidOk(p.to_user_id)
        /\ p.from_user_id # p.to_user_id}

LikeFail == \E payload \in ValidLikes, fail \in 1..3 : like_user(payload, fail)

FailNext == Next \/ LikeFail

FailSpec == Init /\ [][FailNext]_vars

(***************************************************************************)
(* ModSpec: one request at a time; payloads carry the moderation flags and *)
(* the admin takes every action.  Arrays of a payload are empty and        *)
(* identifiers are spelled in lower case.                                  *)
(***************************************************************************)
ModUserPayloads ==
    [email : Emails, tanggal_lahir : {Birth0}, verified : BOOLEAN,
     approved : BOOLEAN, liked_user_ids : {EmptyArr}, matches : {EmptyArr}]

ModSendPayloads == [from_user_id : LowerIds, to_user_id : LowerIds, text : {"hi"}]

AdminActions ==
    [user_id : LowerIds, action : {"approve", "reject", "verify", "unverify"}]

ModProfile == \E user \in ModUserPayloads : create_or_update_profile(user)

ModSend == \E payload \in ModSendPayloads : send_message(payload)

Admin == \E action \in AdminActions : admin_action(action)

ModNext == ModProfile \/ LowerLike \/ ModSend \/ Admin

ModSpec == Init /\ [][ModNext]_vars

(***************************************************************************)
(* SearchSpec: profiles with birth dates, admin approval, and searches by  *)
(* age on a day the clock gives                                            *)
(***************************************************************************)
Ages == 1..MaxAge

\* values of date.today()
Todays == {<<2024, 2, 28>>, <<2024, 2, 29>>, <<2024, 3, 1>>}

\* the day and month of t, k years earlier
YearsBefore(t, k) == <<t[1] - k, t[2], t[3]>>

BirthDates ==
    {d \in {YearsBefore(t, a) : t \in Todays, a \in Ages} :
        DateOk(d[1], d[2], d[3])}

SearchUserPayloads ==
    [email : Emails, tanggal_lahir : BirthDates, verified : {FALSE},
     approved : {FALSE}, liked_user_ids : {EmptyArr}, matches : {EmptyArr}]

AdminApproves == [user_id : LowerIds, action : {"approve"}]

OptAges == {None} \cup {Some(a) : a \in 1..(MaxAge + 1)}

Queries == [usia_min : OptAges, usia_max : OptAges]

SearchProfile == \E user \in SearchUserPayloads : create_or_update_profile(user)

Approve == \E action \in AdminApproves : admin_action(action)

Search == \E q \in Queries, today \in Todays : search_profiles(q, today)

SearchNext == SearchProfile \/ Approve \/ Search

SearchSpec == Init /\ [][SearchNext]_vars

(***************************************************************************)
(* ConcSpec: two workers serve profile submissions and likes, one store    *)
(* call per step, in any interleaving                                      *)
(***************************************************************************)
ConcUserPayloads ==
    [email : Emails, tanggal_lahir : {Birth0}, verified : {FALSE},
     approved : {FALSE}, liked_user_ids : {EmptyArr}, matches : {EmptyArr}]

ConcLikePayloads ==
    {p \in [from_user_id : LowerIds, to_user_id : LowerIds] :
        p.from_user_id # p.to_user_id}

At(w, pc) == workers[w].pc = pc

Goto(w, pc) == workers' = [workers EXCEPT ![w].pc = pc]

Finish(w, resp) ==
    /\ workers' = [workers EXCEPT ![w] = Idle]
    /\ last' = resp

\* line 85
ProfileFind(w, user) ==
    /\ At(w, "idle")
    /\ workers' = [workers EXCEPT ![w] =
                     [Idle EXCEPT !.pc = "profile_write", !.payload = user,
                                  !.existing = find_by_email(users, user.email)]]
    /\ UNCHANGED <<users, nextId, messages, last>>

\* lines 88-95
ProfileWrite(w) ==
    LET existing == workers[w].existing
    IN  /\ At(w, "profile_write")
        /\ existing = 0 => nextId <= MaxProfiles
        /\ users' = profile_write(users, nextId, existing, workers[w].payload)
        /\ nextId' = profile_next_id(nextId, existing)
        /\ Finish(w, Resp("profile", 200,
                          user_to_public(profile_doc_id(nextId, existing))))
        /\ UNCHANGED messages

\* lines 147-149, for a payload of two different valid identifiers
LikeFindFrom(w, payload) ==
    /\ At(w, "idle")
    /\ workers' = [workers EXCEPT ![w] =
                     [Idle EXCEPT !.pc = "like_150", !.payload = payload,
                                  !.u_from = find_by_id(users, oid(payload.from_user_id))]]
    /\ UNCHANGED <<users, nextId, messages, last>>

\* lines 150-152
LikeFindTo(w) ==
    LET u_to == find_by_id(users, oid(workers[w].payload.to_user_id))
    IN  /\ At(w, "like_150")
        /\ IF workers[w].u_from = None \/ u_to = None
           THEN Finish(w, Resp("like", 404, "User not found"))
           ELSE /\ workers' = [workers EXCEPT ![w].pc = "like_154", ![w].u_to = u_to]
                /\ UNCHANGED last
        /\ UNCHANGED <<users, nextId, messages>>

\* lines 154-157, and line 161 when the like is not mutual
LikeAdd(w) ==
    /\ At(w, "like_154")
    /\ users' = like_add(users, workers[w].payload)
    /\ IF is_mutual(workers[w].payload, workers[w].u_to)
       THEN Goto(w, "like_159") /\ UNCHANGED last
       ELSE Finish(w, Resp("like", 200, FALSE))
    /\ UNCHANGED <<nextId, messages>>

\* line 159
LikeMatchFrom(w) ==
    /\ At(w, "like_159")
    /\ users' = match_from(users, workers[w].payload)
    /\ Goto(w, "like_160")
    /\ UNCHANGED <<nextId, messages, last>>

\* lines 160-161
LikeMatchTo(w) ==
    /\ At(w, "like_160")
    /\ users' = match_to(users, workers[w].payload)
    /\ Finish(w, Resp("like", 200, TRUE))
    /\ UNCHANGED <<nextId, messages>>

ConcProfileFind == \E w \in Workers, user \in ConcUserPayloads : ProfileFind(w, user)

ConcProfileWrite == \E w \in Workers : ProfileWrite(w)

ConcLikeFindFrom ==
    \E w \in Workers, payload \in ConcLikePayloads : LikeFindFrom(w, payload)

ConcLikeFindTo == \E w \in Workers : LikeFindTo(w)

ConcLikeAdd == \E w \in Workers : LikeAdd(w)

ConcLikeMatchFrom == \E w \in Workers : LikeMatchFrom(w)

ConcLikeMatchTo == \E w \in Workers : LikeMatchTo(w)

ConcNext ==
    \/ ConcProfileFind \/ ConcProfileWrite
    \/ ConcLikeFindFrom \/ ConcLikeFindTo \/ ConcLikeAdd
    \/ ConcLikeMatchFrom \/ ConcLikeMatchTo

ConcSpec == Init /\ [][ConcNext]_vars

(***************************************************************************)
(* Properties                                                              *)
(***************************************************************************)
\* identifier strings a and b name two different documents of db
DistinctExisting(db, a, b) ==
    /\ oid(a) # oid(b)
    /\ Exists(db, oid(a))
    /\ Exists(db, oid(b))

Liked(db, a, b) == In(b, db[oid(a)].liked_user_ids)

Matched(db, a, b) ==
    In(b, db[oid(a)].matches) /\ In(a, db[oid(b)].matches)

Returned(r, mutual) == r.resp.status = 200 /\ r.resp.body = mutual

\* some spelling of document x's identifier is in arr
Names(arr, x) == \E t \in Elems(arr) : oid(t) = x

\* C1: match membership is bidirectional after any sequence of completed
\* operations: whoever is in X.matches exists and has X in its matches.
C1_Bidirectional ==
    \A x \in DOMAIN users : \A s \in Elems(users[x].matches) :
        Exists(users, oid(s)) /\ Names(users[oid(s)].matches, x)

\* C2: a profile's identifier is never in its own liked_user_ids or matches.
C2_NoSelf ==
    \A x \in DOMAIN users :
        /\ ~In(user_to_public(x), users[x].liked_user_ids)
        /\ ~In(user_to_public(x), users[x].matches)

\* C3: for distinct existing profiles A and B with no like from B to A,
\* like(A,B) returns mutual=false, puts B in A.liked_user_ids and leaves the
\* matches of both unchanged; like(B,A) right after it returns mutual=true and
\* leaves B in A.matches and A in B.matches.
C3_LikeThenLikeBack ==
    \A a \in IdStr, b \in IdStr :
        (DistinctExisting(users, a, b) /\ ~Liked(users, b, a)) =>
            LET r1 == like_result(users, Like(a, b), 0)
                r2 == like_result(r1.db, Like(b, a), 0)
            IN  /\ Returned(r1, FALSE)
                /\ Liked(r1.db, a, b)
                /\ r1.db[oid(a)].matches = users[oid(a)].matches
                /\ r1.db[oid(b)].matches = users[oid(b)].matches
                /\ Returned(r2, TRUE)
                /\ Matched(r2.db, a, b)

\* a like (A,B) without a like back was answered mutual=false, the like back
\* mutual=true, and the two are matched
C3_Witness ==
    /\ last = Resp("like", 200, TRUE)
    /\ \E a \in IdStr, b \in IdStr :
        /\ DistinctExisting(users, a, b)
        /\ Liked(users, a, b) /\ Liked(users, b, a)
        /\ Matched(users, a, b)

\* C4 (first half): a send from an existing sender whose matches do not hold
\* the receiver is answered 403 and appends nothing.
C4_Forbidden ==
    \A payload \in SendPayloads :
        (/\ oidOk(payload.from_user_id)
         /\ Exists(users, oid(payload.from_user_id))
         /\ ~In(payload.to_user_id, users[oid(payload.from_user_id)].matches)) =>
            /\ send_result(users, messages, payload).resp.status = 403
            /\ send_result(users, messages, payload).log = messages

\* C4 (second half): a step that changes the log appends one message, whose
\* sender had the receiver in its matches when the step was taken.
C4_Gated ==
    messages' # messages =>
        /\ Len(messages') = Len(messages) + 1
        /\ SubSeq(messages', 1, Len(messages)) = messages
        /\ LET m == messages'[Len(messages')]
           IN  \E to \in IdStr :
                 /\ m.match_id = match_id(m.sender_id, to)
                 /\ Exists(users, oid(m.sender_id))
                 /\ In(to, users[oid(m.sender_id)].matches)

\* C4: messaging is match-gated.
C4_MatchGated == []C4_Forbidden /\ [][C4_Gated]_vars

\* a send between two existing, unmatched profiles was refused
C4_Witness ==
    /\ last.op = "send" /\ last.status = 403
    /\ \E a \in IdStr, b \in IdStr :
        DistinctExisting(users, a, b) /\ ~In(b, users[oid(a)].matches)

\* C5: like(from,to) twice in a row leaves every profile's liked_user_ids as
\* one call leaves it, with to in from's liked_user_ids once.
C5_Idempotent ==
    \A a \in IdStr, b \in IdStr :
        DistinctExisting(users, a, b) =>
            LET r1 == like_result(users, Like(a, b), 0)
                r2 == like_result(r1.db, Like(a, b), 0)
            IN  /\ r1.resp.status = 200 /\ r2.resp.status = 200
                /\ DOMAIN r2.db = DOMAIN r1.db
                /\ \A i \in DOMAIN r1.db :
                     r2.db[i].liked_user_ids = r1.db[i].liked_user_ids
                /\ r2.db[oid(a)].liked_user_ids[b] = 1
                /\ \A i \in DOMAIN users \ {oid(a)} :
                     r2.db[i].liked_user_ids = users[i].liked_user_ids

\* a like between two existing profiles was recorded
C5_Witness ==
    /\ last.op = "like" /\ last.status = 200
    /\ \E a \in IdStr, b \in IdStr :
        DistinctExisting(users, a, b) /\ Liked(users, a, b)

\* C8: when a mutual like(A,B) stops at the write of line 160, with B written
\* into A.matches and A not into B.matches, the next completed like between
\* A and B, in either direction, returns mutual=true and leaves B in
\* A.matches and A in B.matches.
C8_SelfHealing ==
    \A a \in IdStr, b \in IdStr :
        (/\ DistinctExisting(users, a, b)
         /\ is_mutual(Like(a, b), find_by_id(users, oid(b)))) =>
            LET part == like_result(users, Like(a, b), 3)
            IN  /\ part.resp.status = 500
                /\ In(b, part.db[oid(a)].matches)
                /\ \A q \in {Like(a, b), Like(b, a)} :
                     LET r == like_result(part.db, q, 0)
                     IN  Returned(r, TRUE) /\ Matched(r.db, a, b)

\* the write of line 160 has just failed and left a one-sided match
C8_Witness ==
    /\ last.op = "like" /\ last.status = 500 /\ last.body = 160
    /\ \E a \in IdStr, b \in IdStr :
        /\ DistinctExisting(users, a, b)
        /\ Liked(users, a, b) /\ Liked(users, b, a)
        /\ In(b, users[oid(a)].matches)
        /\ ~In(a, users[oid(b)].matches)

\* C6: on every day, an approved profile born exactly a years before the day
\* is in the result of the search usia_min = a, usia_max = a, and not in the
\* result of the search usia_min = a + 1.
C6_AgeBoundary ==
    \A today \in Todays, a \in Ages, i \in DOMAIN users :
        (users[i].approved /\ users[i].tanggal_lahir = YearsBefore(today, a)) =>
            LET at    == search_result(users, [usia_min |-> Some(a), usia_max |-> Some(a)], today)
                above == search_result(users, [usia_min |-> Some(a + 1), usia_max |-> None], today)
            IN  /\ at.status = 200 /\ user_to_public(i) \in at.body
                /\ ~(above.status = 200 /\ user_to_public(i) \in above.body)

\* C7: the store holds at most one profile per email, whatever the
\* interleaving of the submissions.
C7_UniqueEmail ==
    \A i \in DOMAIN users, j \in DOMAIN users :
        users[i].email = users[j].email => i = j

\* C9: once every like has completed, two profiles that have each liked the
\* other are matched, whatever the interleaving of the likes.
C9_MutualLikesMatch ==
    AllIdle =>
        \A a \in LowerIds, b \in LowerIds :
            (/\ DistinctExisting(users, a, b)
             /\ Liked(users, a, b) /\ Liked(users, b, a)) =>
                Matched(users, a, b)

\* C10: approved and verified change in admin actions only, and a new
\* profile starts with both false.
C10_AdminOnly ==
    [][\A i \in DOMAIN users' :
          IF i \in DOMAIN users
          THEN (\/ users'[i].approved # users[i].approved
                \/ users'[i].verified # users[i].verified) =>
                   \E action \in AdminActions : admin_action(action)
          ELSE ~users'[i].approved /\ ~users'[i].verified]_vars

====
